---- MODULE Spec2Model ----
(***************************************************************************)
(* wiki-bubbles in three parts: the Graph Store half of the application    *)
(* component (App), the ForceGraph component, and getBatchTranslations.    *)
(*                                                                         *)
(* App.  A handler that awaits the provider is two actions: the part       *)
(* before the await (which captures the closure's values) and the          *)
(* continuation, which receives the provider's answer.  Continuations of   *)
(* different calls run in any order.  State that no handler reads when it  *)
(* builds the graph (summary, loadingSummary, the menu) is left out; the   *)
(* text of the input field is the argument of the search.  The provider's  *)
(* answer to getArticleLinks is an input of the continuation; the catch    *)
(* branch of toggleLang is not an action: getBatchTranslations catches its *)
(* own errors and the code after the await cannot throw.  The variables    *)
(* marked history record what the properties need of the past and are read *)
(* by no action.  Spec runs MaxEvents user events with answers of at most  *)
(* MaxLinks links; SpecWide runs one more event with one more link per     *)
(* answer; SearchSpec runs the search form (texts that are and are not     *)
(* titles, the error message) without expands and translations.            *)
(*                                                                         *)
(* ForceGraph.  One mounted lifetime of the component, driven by its props *)
(* (data, theme, width and height, focusedNodeId) and by the pointer.  A   *)
(* change of data, theme, width or height re-runs the initGraph effect:    *)
(* its cleanup, then initGraph.  d3 is modelled by what its calls do: a    *)
(* simulation's timer ticks until it is stopped or has cooled down,        *)
(* restart() starts it again, a tick moves the free nodes and holds a      *)
(* pinned node on its pin, a transition on the <svg> replaces the one in   *)
(* flight and sets the zoom transform at its end, and the listeners of a   *)
(* drag gesture stay on the window until the gesture ends.  Coordinates    *)
(* are abstract (a tick adds 1), transforms are in hundredths, one pointer *)
(* drags at a time.  SimSpec runs the component on small graphs with drag  *)
(* gestures, CameraSpec on graphs of 100 and 101 nodes with the fit timer, *)
(* resizes and zoom gestures; PhysicsSpec computes initGraph's physics for *)
(* every node count up to MaxNodeCount.                                    *)
(*                                                                         *)
(* getBatchTranslations.  BatchSpec runs one call, a step per request.     *)
(*                                                                         *)
(* Each specification runs one part and holds the variables of the other   *)
(* two at their initial values.                                            *)
(***************************************************************************)
EXTENDS Integers, Sequences, FiniteSets, TLC

\* Article titles the user and the provider may produce.  "A" and "A-A" are
\* chosen so that the link keys of (A, A-A) and (A-A, A) are the same string.
Titles == {"A", "A-A", "B"}

\* The values a translation entry may hold: a translated title, or the empty
\* string (a langlink with an empty title).
TransValues == {"", "B"}

\* Longest link list the provider returns.
MaxLinks == 1

\* Number of user events (search, click, close, expand, language, reset) in a run.
MaxEvents == 3

\* Number of simulations one mounted ForceGraph creates (runs of initGraph).
MaxInits == 2

\* Number of ticks one simulation executes.
MaxTicks == 1

\* The nodes a drag gesture is tried on: those at indices 1..MaxDragNode.
MaxDragNode == 2

\* Longest list of distinct titles passed to getBatchTranslations (three
\* batches are needed for a failed batch that is neither first nor last).
MaxTitles == 101

\* chunkSize = 50
ChunkSize == 50

\* Largest node count initGraph's physics are computed for (both caps are
\* reached below it: the distance at 625 nodes, the charge at 567).
MaxNodeCount == 700

\* selectedNode === null
NoNode == "<null>"

VARIABLES
  appState,       \* AppState: "IDLE", "LOADING", "VIEWING" or "ERROR"
  graphData,      \* GraphData: [nodes: Seq([id, val]), links: Seq([source, target])]
  selectedNode,   \* id of the selected GraphNode, or NoNode
  lang,           \* Language: "en" or "fr"
  pendingLoad,    \* loadGraphData calls awaiting getArticleLinks: Seq(title)
  pendingExpand,  \* handleExpandNode calls awaiting getArticleLinks: Seq(selectedNode.id)
  pendingLang,    \* toggleLang calls awaiting getBatchTranslations: Seq([graph, lang])
  errorMsg,       \* "", or the message shown: "errorInvalid" or "errorFetch"
  submitted,      \* history: the title submitted last, "" before the first (SearchSpec)
  staleExpand,    \* history, per pendingExpand entry: the graph was replaced since it started
  staleLang,      \* history, per pendingLang entry: the graph was replaced since it started
  eventsLeft,     \* number of user events the run may still take
  last            \* history: the continuation that ran in the latest step, if one did

appVars == <<appState, graphData, selectedNode, lang, pendingLoad, pendingExpand,
             pendingLang, errorMsg, submitted, staleExpand, staleLang, eventsLeft, last>>

\* The ForceGraph component (one mounted lifetime of it)
VARIABLES
  mounted,        \* svgRef.current is the rendered <svg> (FALSE: null)
  data,           \* the data prop: the store's graph, as the component holds it
  theme,          \* the theme prop: "light" or "dark"
  viewport,       \* the width and height props
  focusedNodeId,  \* the focusedNodeId prop, or NoFocus
  sims,           \* every d3 simulation initGraph created, in creation order
  simulationRef,  \* simulationRef.current: an index of sims, or 0 for null
  physics,        \* what the latest initGraph computed from nodes.length
  fitTimers,      \* the pending setTimeout callbacks: [sim, width, height] of their initGraph run
  gesture,        \* the drag gesture in progress, or NoGesture
  camera,         \* the zoom transform stored on the <svg>
  transition      \* the transition running on the <svg>, or NoTransition

simVars == <<mounted, data, theme, viewport, focusedNodeId, sims, simulationRef,
             physics, fitTimers, gesture, camera, transition>>

\* One call of getBatchTranslations
VARIABLES
  btPc,            \* "idle", "loop" (inside the for loop), "returned" or "threw"
  btTitles,        \* the titles argument
  btI,             \* the loop variable i
  btTranslations,  \* the translations record: requested title -> translated title
  btRequests       \* the requests made so far: Seq([chunk, outcome])

batchVars == <<btPc, btTitles, btI, btTranslations, btRequests>>

vars == <<appVars, simVars, batchVars>>

----------------------------------------------------------------------------
(* Helpers *)

EmptyGraph == [nodes |-> <<>>, links |-> <<>>]

EmptyMap == [t \in {} |-> ""]

NodeIds(g) == {g.nodes[i].id : i \in 1..Len(g.nodes)}

RemoveAt(s, i) == SubSeq(s, 1, i - 1) \o SubSeq(s, i + 1, Len(s))

\* Every list of at most n titles: what getArticleLinks may resolve to (the
\* empty list stands for an empty page, a missing page and a failed fetch).
LinkLists(n) == UNION {[1..k -> Titles] : k \in 0..n}

\* What getBatchTranslations may resolve to for the requested titles: entries
\* for any subset of them.
TranslationMaps(ids) == UNION {[S -> TransValues] : S \in SUBSET ids}

\* What the provider does with the request of getArticleLinks: the fetch or
\* the parsing of its body is rejected, the body has no query.pages, the page
\* is missing (page id -1), the page has no links property, or the page has
\* the links `links`.
Responses(n) ==
  {[kind |-> k, links |-> <<>>] : k \in {"rejected", "nopages", "missing", "nolinks"}}
    \cup {[kind |-> "page", links |-> l] : l \in LinkLists(n)}

\* No request was answered.
NoAnswer == [kind |-> "none", links |-> <<>>]

\* Mutant of GetArticleLinks: a rejected fetch is not caught.
GetArticleLinksUncaught(response) ==
  IF response.kind = "rejected" THEN [threw |-> TRUE, links |-> <<>>]
  ELSE [threw |-> FALSE, links |-> response.links]

\* getArticleLinks: what the call resolves to (links), or that it rejects
\* (threw).  A rejected fetch is caught and gives [], as do a body without
\* pages and the page id -1; a page without links gives [].map(...).
GetArticleLinks(response) ==
  IF response.kind = "rejected" THEN [threw |-> FALSE, links |-> <<>>]
  ELSE IF response.kind = "nopages" THEN [threw |-> FALSE, links |-> <<>>]
  ELSE IF response.kind = "missing" THEN [threw |-> FALSE, links |-> <<>>]
  ELSE IF response.kind = "nolinks" THEN [threw |-> FALSE, links |-> <<>>]
  ELSE [threw |-> FALSE, links |-> response.links]

\* The history of a step that ran no continuation.
NoHistory ==
  [op |-> "none", appBefore |-> "", before |-> EmptyGraph, on |-> EmptyGraph,
   id |-> "", links |-> <<>>, map |-> EmptyMap, answer |-> NoAnswer, stale |-> FALSE]

\* A sequence of n flags, all set.
AllStale(n) == [i \in 1..n |-> TRUE]

----------------------------------------------------------------------------
(* loadGraphData: the graph built from the fetched links *)

\* Mutant of LoadNewNodes: the root gets the weight of a linked article.
LoadNewNodesRootWeightOne(title, links) ==
  <<[id |-> title, val |-> 1]>> \o [i \in 1..Len(links) |-> [id |-> links[i], val |-> 1]]

\* newNodes = [{ id: title, val: 2 }, ...links.map(link => ({ id: link, val: 1 }))]
LoadNewNodes(title, links) ==
  <<[id |-> title, val |-> 2]>> \o [i \in 1..Len(links) |-> [id |-> links[i], val |-> 1]]

\* newLinks = links.map(link => ({ source: title, target: link }))
LoadNewLinks(title, links) ==
  [i \in 1..Len(links) |-> [source |-> title, target |-> links[i]]]

\* The argument of setGraphData in loadGraphData
LoadedGraph(title, links) ==
  [nodes |-> LoadNewNodes(title, links), links |-> LoadNewLinks(title, links)]

----------------------------------------------------------------------------
(* handleExpandNode: the updater passed to setGraphData *)

\* `${source}-${target}`
LinkKey(source, target) == source \o "-" \o target

\* existingNodeIds = new Set(prevData.nodes.map(n => n.id))
ExistingNodeIds(prevData) == {prevData.nodes[i].id : i \in 1..Len(prevData.nodes)}

\* existingLinkKeys = new Set(prevData.links.map(l => `${getId(l.source)}-${getId(l.target)}`))
ExistingLinkKeys(prevData) ==
  {LinkKey(prevData.links[i].source, prevData.links[i].target) : i \in 1..Len(prevData.links)}

\* Mutant of NodesToAdd: the filter on existingNodeIds is missing.
NodesToAddUnfiltered(prevData, newLinksData) ==
  [i \in 1..Len(newLinksData) |-> [id |-> newLinksData[i], val |-> 1]]

\* nodesToAdd = newLinksData.filter(id => !existingNodeIds.has(id)).map(id => ({ id, val: 1 }))
NodesToAdd(prevData, newLinksData) ==
  LET kept == SelectSeq(newLinksData, LAMBDA id : id \notin ExistingNodeIds(prevData))
  IN  [i \in 1..Len(kept) |-> [id |-> kept[i], val |-> 1]]

\* linksToAdd = newLinksData.map(targetId => ({ source: selectedNode.id, target: targetId }))
\*                          .filter(l => !existingLinkKeys.has(`${l.source}-${l.target}`))
LinksToAdd(prevData, selectedId, newLinksData) ==
  SelectSeq([i \in 1..Len(newLinksData) |-> [source |-> selectedId, target |-> newLinksData[i]]],
            LAMBDA l : LinkKey(l.source, l.target) \notin ExistingLinkKeys(prevData))

\* safeLinksToAdd = linksToAdd.filter(l => safeNodesToAdd.some(n => n.id === l.target)
\*                                         || existingNodeIds.has(l.target))
SafeLinksToAdd(prevData, selectedId, newLinksData) ==
  LET safeNodesToAdd == NodesToAdd(prevData, newLinksData)
  IN  SelectSeq(LinksToAdd(prevData, selectedId, newLinksData),
                LAMBDA l : \/ \E i \in 1..Len(safeNodesToAdd) : safeNodesToAdd[i].id = l.target
                           \/ l.target \in ExistingNodeIds(prevData))

\* Mutant of ExpandedGraph: the early return for "no new node" is missing.
ExpandedGraphNoEarlyReturn(prevData, selectedId, newLinksData) ==
  [nodes |-> prevData.nodes \o NodesToAdd(prevData, newLinksData),
   links |-> prevData.links \o SafeLinksToAdd(prevData, selectedId, newLinksData)]

\* Mutant of ExpandedGraph: the new nodes are put in front of the old ones.
ExpandedGraphPrepending(prevData, selectedId, newLinksData) ==
  IF Len(NodesToAdd(prevData, newLinksData)) = 0
  THEN prevData
  ELSE [nodes |-> NodesToAdd(prevData, newLinksData) \o prevData.nodes,
        links |-> SafeLinksToAdd(prevData, selectedId, newLinksData) \o prevData.links]

\* prevData => { ...; if (safeNodesToAdd.length === 0) return prevData; return {...} }
ExpandedGraph(prevData, selectedId, newLinksData) ==
  IF Len(NodesToAdd(prevData, newLinksData)) = 0
  THEN prevData
  ELSE [nodes |-> prevData.nodes \o NodesToAdd(prevData, newLinksData),
        links |-> prevData.links \o SafeLinksToAdd(prevData, selectedId, newLinksData)]

----------------------------------------------------------------------------
(* toggleLang: the graph rebuilt from the translations *)

\* translationMap[id] || id : an absent entry and an empty one both fall back to id
Translated(translationMap, id) ==
  IF id \in DOMAIN translationMap /\ translationMap[id] # ""
  THEN translationMap[id]
  ELSE id

\* newNodes = graphData.nodes.map(node => ({ ...node, id: translationMap[node.id] || node.id, x: undefined, ... }))
LangNewNodes(g, translationMap) ==
  [i \in 1..Len(g.nodes) |->
     [id |-> Translated(translationMap, g.nodes[i].id), val |-> g.nodes[i].val]]

\* Mutant of LangNewLinks: the link targets are left untranslated.
LangNewLinksTargetKept(g, translationMap) ==
  [i \in 1..Len(g.links) |->
     [source |-> Translated(translationMap, g.links[i].source),
      target |-> g.links[i].target]]

\* newLinks = graphData.links.map(link => ({ source: translationMap[sourceId] || sourceId,
\*                                           target: translationMap[targetId] || targetId }))
LangNewLinks(g, translationMap) ==
  [i \in 1..Len(g.links) |->
     [source |-> Translated(translationMap, g.links[i].source),
      target |-> Translated(translationMap, g.links[i].target)]]

\* The argument of setGraphData in toggleLang
RelabeledGraph(g, translationMap) ==
  [nodes |-> LangNewNodes(g, translationMap), links |-> LangNewLinks(g, translationMap)]

\* targetLang = lang === 'en' ? 'fr' : 'en'
TargetLang(l) == IF l = "en" THEN "fr" ELSE "en"

----------------------------------------------------------------------------
(* initGraph: the physics computed from the node count *)

Min(a, b) == IF a < b THEN a ELSE b

Max(a, b) == IF a > b THEN a ELSE b

\* Mutant of IsHighCount: a graph of exactly 100 nodes counts as high.
IsHighCountInclusive(nodeCount) == nodeCount >= 100

\* isHighCount = nodeCount > 100
IsHighCount(nodeCount) == nodeCount > 100

\* Mutant of DynamicLinkDistance: the distance is not capped.
DynamicLinkDistanceUncapped(nodeCount) == 1000 + nodeCount * 8

\* dynamicLinkDistance = Math.min(600, 100 + (nodeCount * 0.8)), in tenths of
\* a unit so that nodeCount * 0.8 stays exact
DynamicLinkDistance(nodeCount) == Min(6000, 1000 + nodeCount * 8)

\* dynamicChargeStrength = Math.max(-2000, -300 - (nodeCount * 3))
DynamicChargeStrength(nodeCount) == Max(-2000, -300 - nodeCount * 3)

\* The constants initGraph hands to forceLink and forceManyBody
PhysicsOf(nodeCount) ==
  [nodeCount |-> nodeCount,
   isHighCount |-> IsHighCount(nodeCount),
   linkDistance |-> DynamicLinkDistance(nodeCount),
   chargeStrength |-> DynamicChargeStrength(nodeCount)]

\* No initGraph has run.
NoPhysics ==
  [nodeCount |-> -1, isHighCount |-> FALSE, linkDistance |-> 0, chargeStrength |-> 0]

----------------------------------------------------------------------------
(* ForceGraph: the data prop, the simulation's copies, the zoom transforms *)

\* node.x === undefined: a coordinate pair is <<>> when unset, <<x, y>> when set
Unset == <<>>

\* focusedNodeId is null or undefined (node ids are 1, 2, ...)
NoFocus == 0

\* A graph of n nodes as App stores it: node 1 is the root, every other node
\* is linked from it.  Store nodes hold no coordinates and no pin, store links
\* hold the ids of their ends.
StoreGraph(n) ==
  [nodes |-> [i \in 1..n |-> [id |-> i, pos |-> Unset, pin |-> Unset]],
   links |-> [i \in 1..(n - 1) |-> [source |-> 1, target |-> i + 1, resolved |-> FALSE]]]

\* d3 places a node without coordinates by its index.
Placement(i) == <<i, i>>

\* d3.forceSimulation(nodes): the copies of data.nodes, each placed if it has
\* no coordinates yet
SimulationNodes(d) ==
  [i \in 1..Len(d.nodes) |->
     [id |-> d.nodes[i].id,
      pos |-> IF d.nodes[i].pos = Unset THEN Placement(i) ELSE d.nodes[i].pos,
      pin |-> d.nodes[i].pin]]

\* d3.forceLink(links).id(d => d.id): the copies of data.links, their ends
\* replaced by the node objects
SimulationLinks(d) ==
  [i \in 1..Len(d.links) |->
     [source |-> d.links[i].source, target |-> d.links[i].target, resolved |-> TRUE]]

\* The simulation one run of initGraph creates; its timer runs.
NewSimulation(d) ==
  [nodes |-> SimulationNodes(d),
   links |-> SimulationLinks(d),
   running |-> TRUE,
   alphaTarget |-> 0,
   ticks |-> 0]

\* A simulation nothing refers to any more.
Collected ==
  [nodes |-> <<>>, links |-> <<>>, running |-> FALSE, alphaTarget |-> 0, ticks |-> 0]

\* The simulations still referred to: by simulationRef.current (ref), by the
\* listeners of the gesture in progress (g) or by d3's timer (a running
\* simulation).  The others are garbage.
Collect(ss, ref, g) ==
  [i \in DOMAIN ss |->
     IF i = ref \/ i = g.sim \/ ss[i].running THEN ss[i] ELSE Collected]

\* Mutant of DataAfterWrite: d3 is handed the store's own nodes and links.
DataAfterWriteShared(d, sim) == [nodes |-> sim.nodes, links |-> sim.links]

\* nodes = data.nodes.map(d => ({ ...d })), links = data.links.map(d => ({ ...d })):
\* d3 writes into copies, so data is the same after d3 wrote into sim.
DataAfterWrite(d, sim) == d

\* d3.zoomIdentity, in hundredths
ZoomIdentity == [k |-> 100, x |-> 0, y |-> 0]

\* transform.translate(tx, ty), tx and ty in hundredths
Translate(t, tx, ty) ==
  [k |-> t.k, x |-> t.x + (t.k * tx) \div 100, y |-> t.y + (t.k * ty) \div 100]

\* transform.scale(s), s in hundredths
Scale(t, s) == [k |-> (t.k * s) \div 100, x |-> t.x, y |-> t.y]

\* d3.zoomIdentity.translate(width/2, height/2).scale(0.2).translate(-width/2, -height/2)
FitTransform(width, height) ==
  Translate(Scale(Translate(ZoomIdentity, 50 * width, 50 * height), 20),
            -50 * width, -50 * height)

\* d3.zoomIdentity.translate(width / 2 - node.x * scale, height / 2 - node.y * scale).scale(scale)
\* with scale = 1.2
FocusTransform(node, width, height) ==
  Scale(Translate(ZoomIdentity, 50 * width - node.pos[1] * 120,
                                50 * height - node.pos[2] * 120), 120)

NoTransition == [active |-> FALSE, target |-> ZoomIdentity, owner |-> 0]

NoGesture == [sim |-> 0, node |-> 0]

\* The ForceGraph is not rendered.
ForceGraphNotMounted ==
  /\ mounted = FALSE
  /\ data = StoreGraph(0)
  /\ theme = "light"
  /\ viewport = [width |-> 800, height |-> 600]
  /\ focusedNodeId = NoFocus
  /\ sims = <<>>
  /\ simulationRef = 0
  /\ physics = NoPhysics
  /\ fitTimers = {}
  /\ gesture = NoGesture
  /\ camera = ZoomIdentity
  /\ transition = NoTransition

----------------------------------------------------------------------------
(* getBatchTranslations: the titles in chunks of chunkSize *)

\* Array.from(new Set(titles)): the first occurrence of every title, in order
UniqueTitles(titles) ==
  LET first == SelectSeq([k \in 1..Len(titles) |-> k],
                         LAMBDA k : \A o \in 1..(k - 1) : titles[o] # titles[k])
  IN [r \in 1..Len(first) |-> titles[first[r]]]

\* uniqueTitles.slice(i, i + chunkSize)
Chunk(uniqueTitles, i) == SubSeq(uniqueTitles, i + 1, Min(i + ChunkSize, Len(uniqueTitles)))

\* The title a langlink gives for a requested title.
LangLink(title) == title + 1000

\* The pages of a response that have a langlink: every page of the chunk, only
\* the page of its first title, or none (no pages, or pages without langlinks).
PagesWithLangLink(chunk, outcome) ==
  CASE outcome = "all" -> {chunk[k] : k \in 1..Len(chunk)}
    [] outcome = "first" -> {chunk[1]}
    [] OTHER -> {}

\* translations[page.title] = page.langlinks[0]['*'] for every such page
WithTranslations(translations, chunk, outcome) ==
  [t \in DOMAIN translations \cup PagesWithLangLink(chunk, outcome) |->
     IF t \in PagesWithLangLink(chunk, outcome) THEN LangLink(t) ELSE translations[t]]

\* No translation yet: const translations = {}
NoTranslations == [t \in {} |-> 0]

\* getBatchTranslations is not called.
BatchNotCalled ==
  /\ btPc = "idle"
  /\ btTitles = <<>>
  /\ btI = 0
  /\ btTranslations = NoTranslations
  /\ btRequests = <<>>

----------------------------------------------------------------------------
(* State machine of App *)

Init ==
  /\ appState = "IDLE"
  /\ graphData = EmptyGraph
  /\ selectedNode = NoNode
  /\ lang = "en"
  /\ pendingLoad = <<>>
  /\ pendingExpand = <<>>
  /\ pendingLang = <<>>
  /\ errorMsg = ""
  /\ submitted = ""
  /\ staleExpand = <<>>
  /\ staleLang = <<>>
  /\ eventsLeft = MaxEvents
  /\ last = NoHistory
  /\ ForceGraphNotMounted
  /\ BatchNotCalled

\* A user event is counted, and no continuation ran in its step.
UserEvent ==
  /\ eventsLeft > 0
  /\ eventsLeft' = eventsLeft - 1
  /\ last' = NoHistory
  /\ UNCHANGED <<simVars, batchVars>>

\* handleSearch with an input that resolves to `title`, up to the await in
\* loadGraphData.  The history variable `submitted` is left to the
\* specification: Spec and SpecWide do not record it.
HandleSearch(title) ==
  /\ UserEvent
  /\ errorMsg' = ""
  /\ appState' = "LOADING"
  /\ selectedNode' = NoNode
  /\ pendingLoad' = Append(pendingLoad, title)
  /\ UNCHANGED <<graphData, lang, pendingExpand, pendingLang, staleExpand, staleLang>>

\* loadGraphData after the await: the provider answered getArticleLinks with
\* `response`.  The catch branch runs when getArticleLinks rejects.
LoadGraphDataDone(i, response) ==
  LET answer == GetArticleLinks(response)
  IN  /\ IF answer.threw
         THEN /\ appState' = "ERROR"
              /\ errorMsg' = "errorFetch"
              /\ UNCHANGED <<graphData, staleExpand, staleLang>>
         ELSE /\ graphData' = LoadedGraph(pendingLoad[i], answer.links)
              /\ appState' = "VIEWING"
              /\ staleExpand' = AllStale(Len(staleExpand))
              /\ staleLang' = AllStale(Len(staleLang))
              /\ UNCHANGED errorMsg
      /\ pendingLoad' = RemoveAt(pendingLoad, i)
      /\ last' = [op |-> "load", appBefore |-> appState, before |-> graphData,
                  on |-> graphData, id |-> pendingLoad[i], links |-> answer.links,
                  map |-> EmptyMap, answer |-> response, stale |-> FALSE]
      /\ UNCHANGED <<selectedNode, lang, pendingExpand, pendingLang, submitted, eventsLeft,
                     simVars, batchVars>>

\* handleNodeClick: the ForceGraph is rendered only while VIEWING and shows
\* the nodes of graphData.
HandleNodeClick(id) ==
  /\ UserEvent
  /\ appState = "VIEWING"
  /\ id \in NodeIds(graphData)
  /\ selectedNode' = id
  /\ UNCHANGED <<appState, graphData, lang, pendingLoad, pendingExpand, pendingLang,
                 errorMsg, submitted, staleExpand, staleLang>>

\* The close button of the info panel: setSelectedNode(null)
CloseInfoPanel ==
  /\ UserEvent
  /\ selectedNode # NoNode
  /\ selectedNode' = NoNode
  /\ UNCHANGED <<appState, graphData, lang, pendingLoad, pendingExpand, pendingLang,
                 errorMsg, submitted, staleExpand, staleLang>>

\* handleExpandNode up to the await: the closure holds selectedNode.
HandleExpandNode ==
  /\ UserEvent
  /\ selectedNode # NoNode
  /\ pendingExpand' = Append(pendingExpand, selectedNode)
  /\ staleExpand' = Append(staleExpand, FALSE)
  /\ UNCHANGED <<appState, graphData, selectedNode, lang, pendingLoad, pendingLang,
                 errorMsg, submitted, staleLang>>

\* handleExpandNode after the await: the updater runs on the current graph.
\* The catch branch (getArticleLinks rejects) only logs.
HandleExpandNodeDone(i, response) ==
  LET answer == GetArticleLinks(response)
  IN  /\ IF answer.threw
         THEN UNCHANGED graphData
         ELSE graphData' = ExpandedGraph(graphData, pendingExpand[i], answer.links)
      /\ pendingExpand' = RemoveAt(pendingExpand, i)
      /\ staleExpand' = RemoveAt(staleExpand, i)
      /\ last' = [op |-> "expand", appBefore |-> appState, before |-> graphData,
                  on |-> graphData, id |-> pendingExpand[i], links |-> answer.links,
                  map |-> EmptyMap, answer |-> response, stale |-> staleExpand[i]]
      /\ UNCHANGED <<appState, selectedNode, lang, pendingLoad, pendingLang, errorMsg,
                     submitted, staleLang, eventsLeft, simVars, batchVars>>

\* toggleLang up to the await (or whole, when there is no graph to translate):
\* the closure holds graphData and lang.
ToggleLang ==
  /\ UserEvent
  /\ IF appState = "VIEWING" /\ Len(graphData.nodes) > 0
     THEN /\ appState' = "LOADING"
          /\ pendingLang' = Append(pendingLang, [graph |-> graphData, lang |-> lang])
          /\ staleLang' = Append(staleLang, FALSE)
          /\ UNCHANGED <<graphData, selectedNode, lang, pendingLoad, pendingExpand>>
     ELSE /\ lang' = TargetLang(lang)
          /\ UNCHANGED <<appState, graphData, selectedNode, pendingLoad, pendingExpand,
                         pendingLang, staleLang>>
  /\ UNCHANGED <<errorMsg, submitted, staleExpand>>

\* toggleLang after the await: getBatchTranslations resolved to translationMap.
ToggleLangDone(i, translationMap) ==
  /\ lang' = TargetLang(pendingLang[i].lang)
  /\ graphData' = RelabeledGraph(pendingLang[i].graph, translationMap)
  /\ selectedNode' = NoNode
  /\ appState' = "VIEWING"
  /\ pendingLang' = RemoveAt(pendingLang, i)
  /\ staleExpand' = AllStale(Len(staleExpand))
  /\ staleLang' = AllStale(Len(staleLang) - 1)
  /\ last' = [op |-> "relabel", appBefore |-> appState, before |-> graphData,
              on |-> pendingLang[i].graph, id |-> "", links |-> <<>>,
              map |-> translationMap, answer |-> NoAnswer, stale |-> staleLang[i]]
  /\ UNCHANGED <<pendingLoad, pendingExpand, errorMsg, submitted, eventsLeft, simVars,
                 batchVars>>

\* reset: its button is shown whenever appState is not IDLE.
Reset ==
  /\ UserEvent
  /\ appState # "IDLE"
  /\ appState' = "IDLE"
  /\ graphData' = EmptyGraph
  /\ selectedNode' = NoNode
  /\ staleExpand' = AllStale(Len(staleExpand))
  /\ staleLang' = AllStale(Len(staleLang))
  /\ UNCHANGED <<lang, pendingLoad, pendingExpand, pendingLang, errorMsg, submitted>>

Next ==
  \/ \E title \in Titles : HandleSearch(title) /\ UNCHANGED submitted
  \/ \E i \in 1..Len(pendingLoad), answer \in Responses(MaxLinks) :
       LoadGraphDataDone(i, answer)
  \/ \E id \in Titles : HandleNodeClick(id)
  \/ CloseInfoPanel
  \/ HandleExpandNode
  \/ \E i \in 1..Len(pendingExpand), answer \in Responses(MaxLinks) :
       HandleExpandNodeDone(i, answer)
  \/ ToggleLang
  \/ \E i \in 1..Len(pendingLang) :
       \E m \in TranslationMaps(NodeIds(pendingLang[i].graph)) : ToggleLangDone(i, m)
  \/ Reset

Spec == Init /\ [][Next]_vars

\* The same program run with one more user event and one more link per answer.
InitWide ==
  /\ appState = "IDLE"
  /\ graphData = EmptyGraph
  /\ selectedNode = NoNode
  /\ lang = "en"
  /\ pendingLoad = <<>>
  /\ pendingExpand = <<>>
  /\ pendingLang = <<>>
  /\ errorMsg = ""
  /\ submitted = ""
  /\ staleExpand = <<>>
  /\ staleLang = <<>>
  /\ eventsLeft = MaxEvents + 1
  /\ last = NoHistory
  /\ ForceGraphNotMounted
  /\ BatchNotCalled

NextWide ==
  \/ \E title \in Titles : HandleSearch(title) /\ UNCHANGED submitted
  \/ \E i \in 1..Len(pendingLoad), answer \in Responses(MaxLinks + 1) :
       LoadGraphDataDone(i, answer)
  \/ \E id \in Titles : HandleNodeClick(id)
  \/ CloseInfoPanel
  \/ HandleExpandNode
  \/ \E i \in 1..Len(pendingExpand), answer \in Responses(MaxLinks + 1) :
       HandleExpandNodeDone(i, answer)
  \/ ToggleLang
  \/ \E i \in 1..Len(pendingLang) :
       \E m \in TranslationMaps(NodeIds(pendingLang[i].graph)) : ToggleLangDone(i, m)
  \/ Reset

SpecWide == InitWide /\ [][NextWide]_vars

----------------------------------------------------------------------------
(* The search form: handleSearch from the text of the input field, with the *)
(* error message.  SearchSpec runs the searches, their answers, clicks and  *)
(* resets, and records the title submitted last.                            *)

\* extractTitleFromUrl returned null
NoTitle == "<null>"

\* The words of a path part, joined by spaces: what
\* decodeURIComponent(titlePart).replace(/_/g, ' ') gives for a part whose
\* words are joined by underscores.
RECURSIVE SpaceJoined(_)
SpaceJoined(words) ==
  IF words = <<>> THEN ""
  ELSE IF Len(words) = 1 THEN words[1]
  ELSE words[1] \o " " \o SpaceJoined(Tail(words))

\* The texts of the input field.  A text is given with what the URL parser
\* and decodeURIComponent find in it: whether new URL(text) succeeds, whether
\* the hostname includes wikipedia.org, the words of the last part of the
\* path, whether that part is a malformed escape, and whether the text
\* starts with http.
InputUrls ==
  { [text |-> "A", http |-> FALSE, parses |-> FALSE, wikipedia |-> FALSE,
     words |-> <<>>, malformed |-> FALSE],
    [text |-> "", http |-> FALSE, parses |-> FALSE, wikipedia |-> FALSE,
     words |-> <<>>, malformed |-> FALSE],
    [text |-> "https://", http |-> TRUE, parses |-> FALSE, wikipedia |-> FALSE,
     words |-> <<>>, malformed |-> FALSE],
    [text |-> "https://en.wikipedia.org/wiki/A_A", http |-> TRUE, parses |-> TRUE,
     wikipedia |-> TRUE, words |-> <<"A", "A">>, malformed |-> FALSE],
    [text |-> "https://en.wikipedia.org/wiki/", http |-> TRUE, parses |-> TRUE,
     wikipedia |-> TRUE, words |-> <<>>, malformed |-> FALSE],
    [text |-> "https://en.wikipedia.org/wiki/%", http |-> TRUE, parses |-> TRUE,
     wikipedia |-> TRUE, words |-> <<>>, malformed |-> TRUE],
    [text |-> "https://example.org/wiki/B", http |-> TRUE, parses |-> TRUE,
     wikipedia |-> FALSE, words |-> <<"B">>, malformed |-> FALSE] }

\* extractTitleFromUrl: the catch branch runs when new URL or
\* decodeURIComponent throws.
ExtractTitleFromUrl(url) ==
  LET caught == IF ~url.http THEN url.text ELSE NoTitle
  IN  IF ~url.parses THEN caught
      ELSE IF ~url.wikipedia THEN NoTitle
      ELSE IF url.malformed THEN caught
      ELSE SpaceJoined(url.words)

\* !title
NotATitle(title) == title = NoTitle \/ title = ""

\* Mutant of HandleSearchSubmit: the early return is missing, and the text is
\* searched as it is.
HandleSearchSubmitNoReturn(inputUrl) ==
  LET title == ExtractTitleFromUrl(inputUrl)
  IN  IF NotATitle(title)
      THEN /\ HandleSearch(inputUrl.text)
           /\ submitted' = inputUrl.text
      ELSE /\ HandleSearch(title)
           /\ submitted' = title

\* handleSearch, up to the await in loadGraphData.
HandleSearchSubmit(inputUrl) ==
  LET title == ExtractTitleFromUrl(inputUrl)
  IN  IF NotATitle(title)
      THEN /\ UserEvent
           /\ errorMsg' = "errorInvalid"
           /\ UNCHANGED <<appState, graphData, selectedNode, lang, pendingLoad, pendingExpand,
                          pendingLang, submitted, staleExpand, staleLang>>
      ELSE /\ HandleSearch(title)
           /\ submitted' = title

\* The close button of the error message: setErrorMsg('')
CloseError ==
  /\ UserEvent
  /\ errorMsg # ""
  /\ errorMsg' = ""
  /\ UNCHANGED <<appState, graphData, selectedNode, lang, pendingLoad, pendingExpand,
                 pendingLang, submitted, staleExpand, staleLang>>

SearchNext ==
  \/ \E inputUrl \in InputUrls : HandleSearchSubmit(inputUrl)
  \/ \E i \in 1..Len(pendingLoad), answer \in Responses(MaxLinks) :
       LoadGraphDataDone(i, answer)
  \/ \E id \in Titles : HandleNodeClick(id)
  \/ CloseError
  \/ Reset

SearchSpec == Init /\ [][SearchNext]_vars

----------------------------------------------------------------------------
(* The physics of initGraph, for every node count *)

\* App takes no step.
AppIdle ==
  /\ appState = "IDLE"
  /\ graphData = EmptyGraph
  /\ selectedNode = NoNode
  /\ lang = "en"
  /\ pendingLoad = <<>>
  /\ pendingExpand = <<>>
  /\ pendingLang = <<>>
  /\ errorMsg = ""
  /\ submitted = ""
  /\ staleExpand = <<>>
  /\ staleLang = <<>>
  /\ eventsLeft = 0
  /\ last = NoHistory

PhysicsInit ==
  /\ AppIdle
  /\ ForceGraphNotMounted
  /\ BatchNotCalled

\* Lines 46-58 of initGraph run on data with nodeCount nodes.
InitGraphPhysics(nodeCount) ==
  /\ physics' = PhysicsOf(nodeCount)
  /\ UNCHANGED <<appVars, batchVars, mounted, data, theme, viewport, focusedNodeId, sims,
                 simulationRef, fitTimers, gesture, camera, transition>>

PhysicsNext ==
  \/ \E nodeCount \in 0..MaxNodeCount : InitGraphPhysics(nodeCount)

PhysicsSpec == PhysicsInit /\ [][PhysicsNext]_vars

----------------------------------------------------------------------------
(* Properties *)

Range(s) == {s[i] : i \in 1..Len(s)}

\* The links of g as a set of ordered (source, target) pairs
LinkPairs(g) == {<<g.links[i].source, g.links[i].target>> : i \in 1..Len(g.links)}

\* No two links of g have the same ordered (source, target) pair.
NoDuplicateLinks(g) ==
  \A i, j \in 1..Len(g.links) :
    (g.links[i].source = g.links[j].source /\ g.links[i].target = g.links[j].target) => i = j

\* No two nodes of g have the same id.
UniqueNodeIds(g) ==
  \A i, j \in 1..Len(g.nodes) : g.nodes[i].id = g.nodes[j].id => i = j

\* Every link of g starts and ends at a node of g.
NoDanglingLinks(g) ==
  \A i \in 1..Len(g.links) :
    g.links[i].source \in NodeIds(g) /\ g.links[i].target \in NodeIds(g)

\* C1: a seed (loadGraphData) or an expand (handleExpandNode) that runs on a
\* graph without duplicate links leaves a graph without duplicate links, for
\* any link list the provider returns, hence so does any sequence of them.
C1_NoDuplicateLinks ==
  (last.op \in {"load", "expand"} /\ NoDuplicateLinks(last.before))
    => NoDuplicateLinks(graphData)

\* C2: in every reachable graph every link's source and target is the id of
\* a node of the graph.
C2_NoDanglingLinks == NoDanglingLinks(graphData)

\* C3: a seed or an expand that runs on a graph whose node ids are distinct
\* leaves a graph whose node ids are distinct; a seed creates one node for a
\* title that is repeated in linkedTitles or that equals the root title.
C3_UniqueNodeIds ==
  (last.op \in {"load", "expand"} /\ UniqueNodeIds(last.before))
    => UniqueNodeIds(graphData)

\* C4: when a relabel maps two distinct node ids to the same id, the result
\* has exactly one node with that id and no two links with the same ordered
\* (source, target) pair.
C4_RelabelMerges ==
  last.op = "relabel" =>
    \A a, b \in NodeIds(last.on) :
      (a # b /\ Translated(last.map, a) = Translated(last.map, b)) =>
        /\ Cardinality({i \in 1..Len(graphData.nodes) :
                          graphData.nodes[i].id = Translated(last.map, a)}) = 1
        /\ NoDuplicateLinks(graphData)

\* C5: expand is idempotent: once an expand has run, from any node id and
\* with any link list, expanding the resulting graph again with the same
\* node id and link list gives that graph again.
C5_ExpandIdempotent ==
  last.op = "expand" => ExpandedGraph(graphData, last.id, last.links) = graphData

\* An expand from a node of the graph has just added a node and a link.
C5_Witness ==
  /\ last.op = "expand"
  /\ last.id \in NodeIds(last.before)
  /\ Len(graphData.nodes) > Len(last.before.nodes)
  /\ Len(graphData.links) > Len(last.before.links)

\* C6: an expand whose linked titles are all node ids already leaves the
\* nodes and the links exactly as they were, and the app state as it was
\* (never ERROR).
C6_ExpandNoNewNodeIsNoOp ==
  (last.op = "expand" /\ Range(last.links) \subseteq NodeIds(last.before)) =>
    /\ graphData = last.before
    /\ appState = last.appBefore
    /\ appState # "ERROR"

\* An expand from a node of the graph to another node of the graph, which
\* were not linked, has just run.
C6_Witness ==
  /\ last.op = "expand"
  /\ last.links # <<>>
  /\ Range(last.links) \subseteq NodeIds(last.before)
  /\ last.id \in NodeIds(last.before)
  /\ \E t \in Range(last.links) : <<last.id, t>> \notin LinkPairs(last.before)

C8_ExpandAddsTheNewLinks ==
  (last.op = "expand" /\ Len(graphData.nodes) > Len(last.before.nodes)) =>
    LET n == Len(last.before.links)
        added == SubSeq(graphData.links, n + 1, Len(graphData.links))
    IN  /\ {<<added[i].source, added[i].target>> : i \in 1..Len(added)}
             = {<<last.id, t>> : t \in Range(last.links)} \ LinkPairs(last.before)
        /\ \A i \in 1..Len(added) : added[i].target \in NodeIds(graphData)

\* The id a relabel gives to node id n: the entry of m when it has one
MappedId(m, n) == IF n \in DOMAIN m THEN m[n] ELSE n

\* The id a relabel gives to node id n: the entry of m when it has a
\* non-empty one
MappedNonEmptyId(m, n) == IF n \in DOMAIN m /\ m[n] # "" THEN m[n] ELSE n

\* C9 as stated: a relabel replaces each node id n by m[n] when m has an
\* entry for n and by n otherwise, each link by the link between the
\* replaced ends, and keeps the weights.
C9_RelabelByEntry ==
  last.op = "relabel" =>
    /\ Len(graphData.nodes) = Len(last.on.nodes)
    /\ \A i \in 1..Len(last.on.nodes) :
         /\ graphData.nodes[i].id = MappedId(last.map, last.on.nodes[i].id)
         /\ graphData.nodes[i].val = last.on.nodes[i].val
    /\ Len(graphData.links) = Len(last.on.links)
    /\ \A i \in 1..Len(last.on.links) :
         /\ graphData.links[i].source = MappedId(last.map, last.on.links[i].source)
         /\ graphData.links[i].target = MappedId(last.map, last.on.links[i].target)

\* C9 amended: a relabel replaces each node id n by m[n] when m has a
\* non-empty entry for n and by n otherwise, each link by the link between
\* the replaced ends, and keeps the weights; with the empty mapping the node
\* ids and the links are the same.
C9_RelabelByNonEmptyEntry ==
  last.op = "relabel" =>
    /\ Len(graphData.nodes) = Len(last.on.nodes)
    /\ \A i \in 1..Len(last.on.nodes) :
         /\ graphData.nodes[i].id = MappedNonEmptyId(last.map, last.on.nodes[i].id)
         /\ graphData.nodes[i].val = last.on.nodes[i].val
    /\ Len(graphData.links) = Len(last.on.links)
    /\ \A i \in 1..Len(last.on.links) :
         /\ graphData.links[i].source = MappedNonEmptyId(last.map, last.on.links[i].source)
         /\ graphData.links[i].target = MappedNonEmptyId(last.map, last.on.links[i].target)
    /\ last.map = EmptyMap => graphData = last.on

\* A relabel has just renamed the target of a link and left its source,
\* which has no entry, as it was.
C9_Witness ==
  /\ last.op = "relabel"
  /\ \E i \in 1..Len(last.on.links) :
       /\ last.on.links[i].source \notin DOMAIN last.map
       /\ last.on.links[i].target \in DOMAIN last.map
       /\ last.map[last.on.links[i].target] # ""
       /\ last.map[last.on.links[i].target] # last.on.links[i].target
       /\ graphData.links[i].source = last.on.links[i].source
       /\ graphData.links[i].target = last.map[last.on.links[i].target]

\* C10: a seed replaces the graph: the root node comes first with weight 2,
\* every other node has weight 1, the node ids are the root title and the
\* linked titles, the links are the pairs (root, linked title), whatever the
\* graph was before; with no linked title the graph is the root alone.
C10_SeedReplaces ==
  last.op = "load" =>
    /\ Len(graphData.nodes) >= 1
    /\ graphData.nodes[1] = [id |-> last.id, val |-> 2]
    /\ \A i \in 2..Len(graphData.nodes) : graphData.nodes[i].val = 1
    /\ NodeIds(graphData) = {last.id} \cup Range(last.links)
    /\ \A i \in 1..Len(graphData.links) :
         graphData.links[i].source = last.id /\ graphData.links[i].target \in Range(last.links)
    /\ LinkPairs(graphData) = {<<last.id, t>> : t \in Range(last.links)}
    /\ last.links = <<>> => (Len(graphData.nodes) = 1 /\ Len(graphData.links) = 0)

\* A seed has just replaced a graph whose root and links are not in the
\* new graph.
C10_Witness ==
  /\ last.op = "load"
  /\ Len(last.before.links) > 0
  /\ last.links # <<>>
  /\ last.before.nodes[1].id \notin NodeIds(graphData)
  /\ LinkPairs(last.before) \cap LinkPairs(graphData) = {}

----------------------------------------------------------------------------
(* State machine of the ForceGraph component.  Its props are its inputs: App *)
(* is held still and the props change as App could change them.             *)

\* Node counts of the graphs passed as data: small graphs, and graphs around
\* initGraph's threshold for a high count.
SmallNodeCounts == {1, 2}

LargeNodeCounts == {100, 101}

\* Ids the focusedNodeId prop takes: the last node of the larger graph, which
\* the smaller graph does not have.
SmallFocusIds == {2}

LargeFocusIds == {101}

Viewports == {[width |-> 800, height |-> 600], [width |-> 1000, height |-> 800]}

\* Where the pointer is during a drag.
PointerPositions == {<<500, 400>>}

\* Transforms a wheel or pan gesture on the <svg> leaves.
UserTransforms == {[k |-> 50, x |-> 200, y |-> 150]}

OtherTheme(th) == IF th = "light" THEN "dark" ELSE "light"

\* Mutant of Stopped: the cleanup leaves the simulation's timer running.
StoppedNot(ss, ref) == ss

\* The cleanup of the initGraph effect: simulationRef.current?.stop()
Stopped(ss, ref) ==
  IF ref = 0 THEN ss ELSE [ss EXCEPT ![ref].running = FALSE]

\* The initGraph effect re-run because initGraph changed (one of data,
\* onNodeClick, width, height, theme did): the cleanup of its previous run,
\* then initGraph on the new props.
RunInitEffect(d, vp) ==
  LET sim == NewSimulation(d)
      new == Len(sims) + 1
  IN /\ Len(sims) < MaxInits
     /\ sims' = Collect(Append(Stopped(sims, simulationRef), sim), new, gesture)
     /\ fitTimers' = IF IsHighCount(Len(sim.nodes))
                     THEN fitTimers \cup {[sim |-> new, width |-> vp.width, height |-> vp.height]}
                     ELSE fitTimers
     /\ simulationRef' = new
     /\ physics' = PhysicsOf(Len(sim.nodes))
     /\ data' = DataAfterWrite(d, sim)

\* Mutant of FocusEffect: an id that is not found focuses the first node.
FocusEffectFirstNode(id, ss, ref, vp, tr) ==
  IF id = NoFocus \/ ref = 0
  THEN tr
  ELSE [active |-> TRUE,
        target |-> FocusTransform(ss[ref].nodes[1], vp.width, vp.height),
        owner |-> ref]

\* The focus effect: the transition on the <svg> after it ran.
FocusEffect(id, ss, ref, vp, tr) ==
  IF id = NoFocus \/ ref = 0
  THEN tr
  ELSE LET found == {j \in DOMAIN ss[ref].nodes : ss[ref].nodes[j].id = id}
       IN IF found # {} /\ ss[ref].nodes[CHOOSE j \in found : \A o \in found : j <= o].pos # Unset
          THEN [active |-> TRUE,
                target |-> FocusTransform(
                             ss[ref].nodes[CHOOSE j \in found : \A o \in found : j <= o],
                             vp.width, vp.height),
                owner |-> ref]
          ELSE tr

SimInit ==
  /\ AppIdle
  /\ ForceGraphNotMounted
  /\ BatchNotCalled

\* App renders the ForceGraph: a new <svg>, then the effects in order (the
\* focus effect finds focusedNodeId unset).
Mount(n) ==
  /\ ~mounted
  /\ sims = <<>>
  /\ mounted' = TRUE
  /\ RunInitEffect(StoreGraph(n), viewport)
  /\ UNCHANGED <<appVars, batchVars, theme, viewport, focusedNodeId, gesture, camera, transition>>

\* App set a new graph (seed, expand, relabel): the data prop is a new object.
DataChanged(n) ==
  /\ mounted
  /\ RunInitEffect(StoreGraph(n), viewport)
  /\ UNCHANGED <<appVars, batchVars, mounted, theme, viewport, focusedNodeId, gesture, camera,
                 transition>>

\* toggleTheme: the theme prop changes, and with it initGraph.
ThemeChanged ==
  /\ mounted
  /\ theme' = OtherTheme(theme)
  /\ RunInitEffect(data, viewport)
  /\ UNCHANGED <<appVars, batchVars, mounted, viewport, focusedNodeId, gesture, camera, transition>>

\* handleResize: width and height change; the initGraph effect re-runs, then
\* the focus effect.
Resized(vp) ==
  /\ mounted
  /\ vp # viewport
  /\ viewport' = vp
  /\ RunInitEffect(data, vp)
  /\ transition' = FocusEffect(focusedNodeId, sims', simulationRef', vp, transition)
  /\ UNCHANGED <<appVars, batchVars, mounted, theme, focusedNodeId, gesture, camera>>

\* The focusedNodeId prop changes: the focus effect runs.
FocusChanged(id) ==
  /\ mounted
  /\ id # focusedNodeId
  /\ focusedNodeId' = id
  /\ transition' = FocusEffect(id, sims, simulationRef, viewport, transition)
  /\ UNCHANGED <<appVars, batchVars, mounted, data, theme, viewport, sims, simulationRef, physics,
                 fitTimers, gesture, camera>>

\* App stops rendering the ForceGraph: the cleanup runs, svgRef.current is null.
Unmount ==
  /\ mounted
  /\ mounted' = FALSE
  /\ sims' = Stopped(sims, simulationRef)
  /\ UNCHANGED <<appVars, batchVars, data, theme, viewport, focusedNodeId, simulationRef, physics,
                 fitTimers, gesture, camera, transition>>

\* One tick moves every node that is not pinned and holds a pinned node on its pin.
Ticked(nodes) ==
  [j \in DOMAIN nodes |->
     [nodes[j] EXCEPT !.pos = IF nodes[j].pin # Unset
                               THEN nodes[j].pin
                               ELSE <<nodes[j].pos[1] + 1, nodes[j].pos[2] + 1>>]]

\* What d3 wrote into simulation i shows in data only through shared objects,
\* and only the current simulation was built from data.
DataSeen(i, ss) == IF i = simulationRef THEN DataAfterWrite(data, ss[i]) ELSE data

\* The timer of simulation i fires: one step of the forces, then the tick handler.
Tick(i) ==
  /\ sims[i].running
  /\ sims[i].ticks < MaxTicks
  /\ sims' = [sims EXCEPT ![i].nodes = Ticked(@), ![i].ticks = @ + 1]
  /\ data' = DataSeen(i, sims')
  /\ UNCHANGED <<appVars, batchVars, mounted, theme, viewport, focusedNodeId, simulationRef, physics,
                 fitTimers, gesture, camera, transition>>

\* Simulation i cooled down (alpha fell below alphaMin): d3 stops its timer.
\* While alphaTarget is 0.3 alpha does not fall that far.
SimulationCools(i) ==
  /\ sims[i].running
  /\ sims[i].alphaTarget = 0
  /\ sims' = [sims EXCEPT ![i].running = FALSE]
  /\ UNCHANGED <<appVars, batchVars, mounted, data, theme, viewport, focusedNodeId, simulationRef,
                 physics, fitTimers, gesture, camera, transition>>

\* dragstarted on node j of the rendered simulation (event.active is 0: one
\* pointer).  alphaTarget is in tenths.
DragStarted(j) ==
  /\ mounted
  /\ gesture = NoGesture
  /\ simulationRef # 0
  /\ j \in DOMAIN sims[simulationRef].nodes
  /\ gesture' = [sim |-> simulationRef, node |-> j]
  /\ sims' = [sims EXCEPT ![simulationRef].alphaTarget = 3,
                          ![simulationRef].running = TRUE,
                          ![simulationRef].nodes[j].pin = sims[simulationRef].nodes[j].pos]
  /\ data' = DataSeen(simulationRef, sims')
  /\ UNCHANGED <<appVars, batchVars, mounted, theme, viewport, focusedNodeId, simulationRef, physics,
                 fitTimers, camera, transition>>

\* dragged: the gesture's listeners are on the window and hold the simulation
\* and the node of the initGraph run that registered them.
Dragged(p) ==
  /\ gesture # NoGesture
  /\ sims' = [sims EXCEPT ![gesture.sim].nodes[gesture.node].pin = p]
  /\ data' = DataSeen(gesture.sim, sims')
  /\ UNCHANGED <<appVars, batchVars, mounted, theme, viewport, focusedNodeId, simulationRef, physics,
                 fitTimers, gesture, camera, transition>>

\* Mutant of DragEnded: fx and fy are left as they are.
DragEndedKeepingPin ==
  /\ gesture # NoGesture
  /\ gesture' = NoGesture
  /\ sims' = Collect([sims EXCEPT ![gesture.sim].alphaTarget = 0],
                     simulationRef, gesture')
  /\ data' = DataSeen(gesture.sim, sims')
  /\ UNCHANGED <<appVars, batchVars, mounted, theme, viewport, focusedNodeId, simulationRef, physics,
                 fitTimers, camera, transition>>

\* dragended
DragEnded ==
  /\ gesture # NoGesture
  /\ gesture' = NoGesture
  /\ sims' = Collect([sims EXCEPT ![gesture.sim].alphaTarget = 0,
                                  ![gesture.sim].nodes[gesture.node].pin = Unset],
                     simulationRef, gesture')
  /\ data' = DataSeen(gesture.sim, sims')
  /\ UNCHANGED <<appVars, batchVars, mounted, theme, viewport, focusedNodeId, simulationRef, physics,
                 fitTimers, camera, transition>>

\* The setTimeout callback of one initGraph run: a transition to the fit
\* transform starts if svgRef.current and zoomRef.current are set.
FitTimerFires(timer) ==
  /\ timer \in fitTimers
  /\ fitTimers' = fitTimers \ {timer}
  /\ transition' = IF mounted
                   THEN [active |-> TRUE,
                         target |-> FitTransform(timer.width, timer.height),
                         owner |-> timer.sim]
                   ELSE transition
  /\ UNCHANGED <<appVars, batchVars, mounted, data, theme, viewport, focusedNodeId, sims,
                 simulationRef, physics, gesture, camera>>

\* The transition on the <svg> reaches its end: its target is the transform.
TransitionEnds ==
  /\ transition.active
  /\ camera' = transition.target
  /\ transition' = NoTransition
  /\ UNCHANGED <<appVars, batchVars, mounted, data, theme, viewport, focusedNodeId, sims,
                 simulationRef, physics, fitTimers, gesture>>

\* A wheel or pan gesture on the <svg>: d3-zoom interrupts the transition and
\* sets the transform.
UserZoom(t) ==
  /\ mounted
  /\ t # camera
  /\ camera' = t
  /\ transition' = NoTransition
  /\ UNCHANGED <<appVars, batchVars, mounted, data, theme, viewport, focusedNodeId, sims,
                 simulationRef, physics, fitTimers, gesture>>

\* The component on small graphs in a window of one size, without zoom
\* gestures: no initGraph run sets the fit timer.
SimNext ==
  \/ \E n \in SmallNodeCounts : Mount(n)
  \/ \E n \in SmallNodeCounts : DataChanged(n)
  \/ ThemeChanged
  \/ \E id \in SmallFocusIds \cup {NoFocus} : FocusChanged(id)
  \/ Unmount
  \/ \E i \in 1..Len(sims) : Tick(i)
  \/ \E i \in 1..Len(sims) : SimulationCools(i)
  \/ \E j \in 1..MaxDragNode : DragStarted(j)
  \/ \E p \in PointerPositions : Dragged(p)
  \/ DragEnded
  \/ TransitionEnds

SimSpec == SimInit /\ [][SimNext]_vars

\* The component on graphs around the high-count threshold, without drag
\* gestures.
CameraNext ==
  \/ \E n \in LargeNodeCounts : Mount(n)
  \/ \E n \in LargeNodeCounts : DataChanged(n)
  \/ ThemeChanged
  \/ \E vp \in Viewports : Resized(vp)
  \/ \E id \in LargeFocusIds \cup {NoFocus} : FocusChanged(id)
  \/ Unmount
  \/ \E i \in 1..Len(sims) : Tick(i)
  \/ \E i \in 1..Len(sims) : SimulationCools(i)
  \/ \E timer \in fitTimers : FitTimerFires(timer)
  \/ TransitionEnds
  \/ \E t \in UserTransforms : UserZoom(t)

CameraSpec == SimInit /\ [][CameraNext]_vars

----------------------------------------------------------------------------
(* State machine of one call of getBatchTranslations, a step per request *)

\* The titles arguments: n distinct titles, and the same list followed by a
\* repetition of its first title.
TitleLists ==
  {[k \in 1..n |-> k] : n \in 0..MaxTitles}
    \cup {[k \in 1..(n + 1) |-> IF k <= n THEN k ELSE 1] : n \in 1..MaxTitles}

\* What a request comes to: fetch or json() throws ("failed"), or a response
\* whose pages with a langlink are all, the first, or none of the chunk's.
Outcomes == {"failed", "all", "first", "none"}

BatchInit ==
  /\ AppIdle
  /\ ForceGraphNotMounted
  /\ BatchNotCalled

\* The call, up to the first request (or whole, for an empty list)
GetBatchTranslations(titles) ==
  /\ btPc = "idle"
  /\ btTitles' = titles
  /\ btPc' = IF Len(titles) = 0 THEN "returned" ELSE "loop"
  /\ UNCHANGED <<appVars, simVars, btI, btTranslations, btRequests>>

\* Mutant of BatchRequest: a failed request is not caught.
BatchRequestUncaught(outcome) ==
  /\ btPc = "loop"
  /\ btI < Len(UniqueTitles(btTitles))
  /\ btRequests' = Append(btRequests,
                          [chunk |-> Chunk(UniqueTitles(btTitles), btI), outcome |-> outcome])
  /\ IF outcome = "failed"
     THEN btPc' = "threw" /\ UNCHANGED <<btI, btTranslations>>
     ELSE /\ btTranslations' = WithTranslations(btTranslations,
                                                Chunk(UniqueTitles(btTitles), btI), outcome)
          /\ btI' = btI + ChunkSize
          /\ UNCHANGED btPc
  /\ UNCHANGED <<appVars, simVars, btTitles>>

\* One turn of the loop: the request for the chunk at i, its try and catch,
\* then i += chunkSize.
BatchRequest(outcome) ==
  /\ btPc = "loop"
  /\ btI < Len(UniqueTitles(btTitles))
  /\ btRequests' = Append(btRequests,
                          [chunk |-> Chunk(UniqueTitles(btTitles), btI), outcome |-> outcome])
  /\ btTranslations' = IF outcome = "failed"
                       THEN btTranslations
                       ELSE WithTranslations(btTranslations,
                                             Chunk(UniqueTitles(btTitles), btI), outcome)
  /\ btI' = btI + ChunkSize
  /\ UNCHANGED <<appVars, simVars, btPc, btTitles>>

\* The loop is over: return translations
BatchReturn ==
  /\ btPc = "loop"
  /\ btI >= Len(UniqueTitles(btTitles))
  /\ btPc' = "returned"
  /\ UNCHANGED <<appVars, simVars, btTitles, btI, btTranslations, btRequests>>

BatchNext ==
  \/ \E titles \in TitleLists : GetBatchTranslations(titles)
  \/ \E outcome \in Outcomes : BatchRequest(outcome)
  \/ BatchReturn

BatchSpec == BatchInit /\ [][BatchNext]_vars

----------------------------------------------------------------------------
(* Properties of the ForceGraph component *)

Clamp(v, lo, hi) == IF v < lo THEN lo ELSE IF v > hi THEN hi ELSE v

\* C11: for every node count N >= 0 the link distance is 100 + 0.8 N clamped
\* to [100, 600] and the charge strength is -300 - 3 N clamped to
\* [-2000, -300] (distances in tenths).
C11_PhysicsClamped ==
  physics.nodeCount >= 0 =>
    /\ physics.linkDistance = Clamp(1000 + 8 * physics.nodeCount, 1000, 6000)
    /\ physics.chargeStrength = Clamp(-300 - 3 * physics.nodeCount, -2000, -300)
    /\ physics.linkDistance \in 1000..6000
    /\ physics.chargeStrength \in -2000..-300

\* The physics of a graph so large that both caps apply.
C11_Witness ==
  /\ physics.nodeCount > 625
  /\ physics.linkDistance = 6000
  /\ physics.chargeStrength = -2000

\* The cleanup of the effect that created simulation i has run: another
\* simulation took its place in simulationRef, or the component unmounted.
Disposed(i) == i # simulationRef \/ ~mounted

\* C12: a disposed simulation executes no further tick and its timer stays
\* stopped, whatever step follows (the drag events of a gesture in progress
\* included); the cleanup on a simulation that already stopped, or on no
\* simulation, changes nothing.
C12_NoTickAfterDisposal ==
  [][/\ \A i \in 1..Len(sims) :
          Disposed(i) => sims'[i].ticks <= sims[i].ticks /\ ~sims'[i].running
     /\ (mounted /\ ~mounted' /\ ~sims[simulationRef].running) => sims' = sims
     /\ Stopped(sims, 0) = sims
     /\ Stopped(Stopped(sims, simulationRef), simulationRef) = Stopped(sims, simulationRef)
    ]_vars

\* A disposed simulation that dragstarted had re-energized, in the middle of
\* its gesture, with a tick still to execute if its timer ran.
C12_Witness ==
  /\ gesture # NoGesture
  /\ Disposed(gesture.sim)
  /\ sims[gesture.sim].alphaTarget = 3
  /\ sims[gesture.sim].nodes[gesture.node].pin \in PointerPositions
  /\ sims[gesture.sim].ticks < MaxTicks

\* C13: once a simulation is disposed, the fit timer its initGraph run set
\* starts no transition when it fires, and a transition it started does not
\* apply its target: the camera stays as it was.
C13_NoCameraChangeAfterDisposal ==
  [][/\ \A timer \in fitTimers :
          (Disposed(timer.sim) /\ timer \notin fitTimers') =>
            transition' = transition /\ camera' = camera
     /\ (transition.active /\ Disposed(transition.owner) /\ ~transition'.active) =>
          camera' = camera
    ]_vars

\* C14: when the simulation is re-initialized on a graph that an expand
\* extended, every node whose id the previous simulation had starts at the
\* coordinates it had there.
C14_CoordinatesCarriedOver ==
  [][(/\ simulationRef # 0
      /\ simulationRef' # simulationRef
      /\ Len(data'.nodes) > Len(data.nodes)
      /\ \A o \in 1..Len(data.nodes) : \E j \in 1..Len(data'.nodes) :
            data'.nodes[j].id = data.nodes[o].id)
     => \A j \in 1..Len(sims'[simulationRef'].nodes) :
          \A o \in 1..Len(sims[simulationRef].nodes) :
             sims'[simulationRef'].nodes[j].id = sims[simulationRef].nodes[o].id
               => sims'[simulationRef'].nodes[j].pos = sims[simulationRef].nodes[o].pos
    ]_vars

\* C15: a node is pinned only while the drag gesture in progress is on it;
\* drag start pins it where it is, a drag event moves the pin to the pointer,
\* and after drag end no node is pinned.
C15_PinnedOnlyWhileDragged ==
  [][/\ \A i \in 1..Len(sims') : \A j \in 1..Len(sims'[i].nodes) :
          sims'[i].nodes[j].pin # Unset => gesture' = [sim |-> i, node |-> j]
     /\ (gesture = NoGesture /\ gesture' # NoGesture) =>
          sims'[gesture'.sim].nodes[gesture'.node].pin
            = sims[gesture'.sim].nodes[gesture'.node].pos
     /\ (gesture # NoGesture /\ gesture' = gesture) =>
          \/ sims'[gesture.sim].nodes[gesture.node].pin
               = sims[gesture.sim].nodes[gesture.node].pin
          \/ sims'[gesture.sim].nodes[gesture.node].pin \in PointerPositions
    ]_vars

\* A gesture in progress on a node of the running simulation, which a tick
\* held at the pointer.
C15_Witness ==
  /\ gesture # NoGesture
  /\ gesture.sim = simulationRef
  /\ sims[gesture.sim].running
  /\ sims[gesture.sim].nodes[gesture.node].pin \in PointerPositions
  /\ sims[gesture.sim].nodes[gesture.node].pos = sims[gesture.sim].nodes[gesture.node].pin

\* C16: whatever the simulator did (initialization, ticks, drags, camera
\* changes), the graph it was given is as App built it: its nodes hold no
\* coordinates and no pin, its links hold the ids of their ends.
C16_StoreUntouched ==
  /\ data = StoreGraph(Len(data.nodes))
  /\ \A j \in 1..Len(data.nodes) : data.nodes[j].pos = Unset /\ data.nodes[j].pin = Unset
  /\ \A l \in 1..Len(data.links) : ~data.links[l].resolved

\* The running simulation has resolved a link, moved its nodes by a tick and
\* holds one of them pinned at the pointer, and a transition has changed the
\* camera.
C16_Witness ==
  /\ mounted
  /\ Len(sims[simulationRef].links) > 0
  /\ sims[simulationRef].links[1].resolved
  /\ sims[simulationRef].ticks > 0
  /\ \E j \in 1..Len(sims[simulationRef].nodes) :
        sims[simulationRef].nodes[j].pin \in PointerPositions
  /\ camera # ZoomIdentity

\* C17: when the focus effect runs for an id that no node of the running
\* simulation has, or whose node has no coordinates, no transition starts
\* and the camera is unchanged.
C17_FocusOnMissingNodeIsNoOp ==
  [][(/\ focusedNodeId' # focusedNodeId \/ viewport' # viewport
      /\ focusedNodeId' # NoFocus
      /\ ~\E j \in 1..Len(sims'[simulationRef'].nodes) :
            /\ sims'[simulationRef'].nodes[j].id = focusedNodeId'
            /\ sims'[simulationRef'].nodes[j].pos # Unset)
     => transition' = transition /\ camera' = camera
    ]_vars

\* Focus was asked on a node the running simulation does not have, and no
\* transition runs.
C17_Witness ==
  /\ mounted
  /\ focusedNodeId # NoFocus
  /\ \A j \in 1..Len(sims[simulationRef].nodes) :
        sims[simulationRef].nodes[j].id # focusedNodeId
  /\ ~transition.active
  /\ camera = ZoomIdentity

\* C18: a theme toggle while a simulation runs leaves the simulation (the
\* same instance, its nodes' coordinates and pins) and the camera as they were.
C18_ThemeLeavesSimulation ==
  [][theme' # theme =>
       /\ simulationRef' = simulationRef
       /\ sims' = sims
       /\ camera' = camera
    ]_vars

\* C19: initGraph sets the fit timer exactly when the graph has more than 100
\* nodes; when the timer of a simulation that is not disposed fires, a
\* transition starts whose target has scale 0.2 and maps the center of the
\* viewport to itself.
C19_AutoFit ==
  [][/\ simulationRef' # simulationRef =>
          ((\E timer \in fitTimers' \ fitTimers : timer.sim = simulationRef')
             <=> Len(data'.nodes) > 100)
     /\ \A timer \in fitTimers \ fitTimers' :
          ~Disposed(timer.sim) =>
            /\ transition'.active
            /\ transition'.target.k = 20
            /\ transition'.target.k * (viewport.width \div 2) + transition'.target.x
                 = 100 * (viewport.width \div 2)
            /\ transition'.target.k * (viewport.height \div 2) + transition'.target.y
                 = 100 * (viewport.height \div 2)
    ]_vars

\* The fit transition of the running simulation of a 101-node graph has
\* reached its end.
C19_Witness ==
  /\ mounted
  /\ Len(sims) = 1
  /\ Len(sims[simulationRef].nodes) = 101
  /\ fitTimers = {}
  /\ ~transition.active
  /\ camera = FitTransform(viewport.width, viewport.height)

----------------------------------------------------------------------------
(* Properties of getBatchTranslations *)

RECURSIVE Concat(_)
Concat(requests) ==
  IF requests = <<>>
  THEN <<>>
  ELSE Concat(SubSeq(requests, 1, Len(requests) - 1)) \o requests[Len(requests)].chunk

\* C20: the call never throws; when it returns, the requests were for the
\* distinct titles in order, in consecutive batches of at most 50, none left
\* out after a failed one; every langlink of a successful batch is in the
\* result and no title of a failed batch is.
C20_BatchesIndependent ==
  /\ btPc # "threw"
  /\ btPc = "returned" =>
       /\ LET requested == Concat(btRequests)
          IN /\ Cardinality({requested[k] : k \in 1..Len(requested)}) = Len(requested)
             /\ {requested[k] : k \in 1..Len(requested)}
                  = {btTitles[k] : k \in 1..Len(btTitles)}
             /\ requested = UniqueTitles(btTitles)
       /\ \A r \in 1..Len(btRequests) :
             /\ Len(btRequests[r].chunk) \in 1..50
             /\ r < Len(btRequests) => Len(btRequests[r].chunk) = 50
             /\ \A k \in 1..Len(btRequests[r].chunk) :
                   LET t == btRequests[r].chunk[k]
                   IN /\ btRequests[r].outcome = "failed" => t \notin DOMAIN btTranslations
                      /\ btRequests[r].outcome = "all" =>
                           t \in DOMAIN btTranslations /\ btTranslations[t] = LangLink(t)
                      /\ (btRequests[r].outcome = "first" /\ k = 1) =>
                           t \in DOMAIN btTranslations /\ btTranslations[t] = LangLink(t)

\* A call that returned after three requests of which the second failed, with
\* the translations of the first and the third.
C20_Witness ==
  /\ btPc = "returned"
  /\ Len(btRequests) = 3
  /\ btRequests[1].outcome = "all"
  /\ btRequests[2].outcome = "failed"
  /\ btRequests[3].outcome = "all"
  /\ Len(btTitles) > Len(Concat(btRequests))
  /\ btRequests[3].chunk[1] \in DOMAIN btTranslations

----------------------------------------------------------------------------
(* Properties of the search form and of the races between fetches *)

\* C21: a search for a title ends with a defined graph whatever the provider
\* does: the app is never in ERROR, it is LOADING only while a link fetch is
\* in flight, and the completion of loadGraphData leaves it VIEWING; when the
\* fetch was rejected, the body had no pages, the page was missing or had no
\* links, the graph is the root alone with weight 2 and no links.
C21_SearchEndsDefined ==
  /\ appState # "ERROR"
  /\ appState = "LOADING" => pendingLoad # <<>>
  /\ last.op = "load" =>
       /\ appState = "VIEWING"
       /\ last.answer.kind # "page" =>
            graphData = [nodes |-> <<[id |-> last.id, val |-> 2]>>, links |-> <<>>]

\* The link fetch of a search was rejected, and the app shows the root alone.
C21_Witness ==
  /\ last.op = "load"
  /\ last.answer.kind = "rejected"
  /\ appState = "VIEWING"
  /\ graphData.nodes = <<[id |-> last.id, val |-> 2]>>
  /\ graphData.links = <<>>

\* C22: submitting a text for which extractTitleFromUrl returns null sets the
\* error message and changes nothing else: no fetch is issued, and the graph,
\* the app state and the selected node are as before the submission.
C22_InvalidInputOnlyReports ==
  [][\A inputUrl \in {u \in InputUrls : ExtractTitleFromUrl(u) = NoTitle} :
       HandleSearchSubmit(inputUrl) =>
         /\ errorMsg' = "errorInvalid"
         /\ UNCHANGED <<graphData, appState, selectedNode, pendingLoad, pendingExpand,
                        pendingLang>>]_vars

\* The message of an invalid input is shown over a graph that is still
\* displayed.
C22_Witness ==
  /\ errorMsg = "errorInvalid"
  /\ appState = "VIEWING"
  /\ Len(graphData.nodes) > 0

\* C23: an expand commits only into the graph that was current when its
\* fetch started or into a graph derived from it by expands: when a seed, a
\* relabel or a reset replaced the graph while the fetch was in flight, the
\* completion of the expand leaves the graph as it is.
C23_StaleExpandCommitsNothing ==
  (last.op = "expand" /\ last.stale) => graphData = last.before

\* C24: after a reset the graph stays empty and the app IDLE until a search
\* submitted after the reset completes.  While the app is IDLE every fetch in
\* flight was started before the reset (a search leaves IDLE at once, and
\* nothing else fetches in IDLE), so a continuation that runs in IDLE leaves
\* the graph empty and the app IDLE.
C24_ResetStaysReset ==
  (last.op # "none" /\ last.appBefore = "IDLE") =>
    (graphData = EmptyGraph /\ appState = "IDLE")

\* C25: in every reachable state a selected node is a node of the current
\* graph.
C25_SelectedNodeInGraph ==
  selectedNode # NoNode => selectedNode \in NodeIds(graphData)

\* C26: a relabel loses no committed expand.  When no seed, reset or other
\* relabel replaced the graph while the translation fetch was in flight, the
\* graph at the commit of the relabel is the captured graph with what the
\* expands committed since; every node and link of it is in the graph the
\* relabel produces, under its relabeled id.
C26_RelabelKeepsExpands ==
  (last.op = "relabel" /\ ~last.stale) =>
    /\ \A n \in NodeIds(last.before) :
         MappedNonEmptyId(last.map, n) \in NodeIds(graphData)
    /\ \A l \in LinkPairs(last.before) :
         <<MappedNonEmptyId(last.map, l[1]), MappedNonEmptyId(last.map, l[2])>>
           \in LinkPairs(graphData)

\* C27: the graph displayed once every search in flight has completed is the
\* one of the search submitted last: when a link fetch completes and none is
\* left in flight, the root of the graph is the title submitted last, in
\* whatever order the fetches of two searches in flight at once completed.
C27_LastSearchWins ==
  (last.op = "load" /\ pendingLoad = <<>>) =>
    (Len(graphData.nodes) > 0 /\ graphData.nodes[1].id = submitted)

====
